---- MODULE Spec2Model ----
(***************************************************************************)
(* Model of the GA4 flattener cloud function (src/cf/main.py):             *)
(*   - run_query_job: flattening query, snapshot (sharded) write,          *)
(*     partition delete and partition load against the BigQuery engine;    *)
(*   - set_dynamic_flat_events_schema: reconciliation of the flat_events   *)
(*     schema with the event parameter keys observed in the source;        *)
(*   - get_unique_event_id: the compound event identifier;                 *)
(*   - get_events_query: the select list of the flat_events query;         *)
(*   - _create_valid_bigquery_field_name: the field name sanitizer;        *)
(*   - InputValidator / flatten_ga_data: validation and orchestration.     *)
(***************************************************************************)
EXTENDS Integers, Sequences, FiniteSets, TLC

VARIABLES
    output,       \* InputValidator.get_output_configuration(): [sharded, partitioned]
    pc,           \* per run of run_query_job: position in the function
    ttype,        \* per run: table_type argument
    shard,        \* per run: self.date_shard
    result,       \* per run: rows the flattening query returns
    job,          \* per run: state of the flattening query job in the engine
    delOutcome,   \* per run: how the partition DELETE job ended
    loadIssued,   \* per run: load_table_from_dataframe has been called
    err,          \* per run: exception that left run_query_job, if any
    rolling,      \* engine: partitioned table <table_type>
    snapshot,     \* engine: sharded tables <table_type>_<date_shard>
    loadedSince,  \* history: runs that loaded a partition since its last DELETE
    spc,          \* position in set_dynamic_flat_events_schema
    tableSchema,  \* engine: the flat_events table's schema, if the table exists
    paramRows,    \* engine: rows of the distinct event parameter key query
    event_params_flat_fields,  \* self.event_params_flat_fields (insertion ordered)
    flat_events_schema,        \* self.partitioned_table_schemas['flat_events']
    events_query, \* the select list get_events_query() returned, if it was called
    event,        \* the trigger message handed to flatten_ga_data
    configFile,   \* the configuration file in the bucket, or the failure to load it
    input_event,  \* attributes of the InputValidator object, set or unset
    fpc,          \* position in flatten_ga_data
    ferr,         \* exception that left flatten_ga_data, if any
    ipc,          \* position of the evaluation of the event_id expression
    idFields,     \* identity fields of two source events
    event_id,     \* the event_id column computed for the two events
    npc,          \* position of the call of _create_valid_bigquery_field_name
    p_field,      \* its argument: a raw key
    field_name    \* what the call gave: a name, or the exception it raised

runVars == <<output, pc, ttype, shard, result, job, delOutcome, loadIssued, err,
             rolling, snapshot, loadedSince>>

schemaVars == <<spc, tableSchema, paramRows, event_params_flat_fields, flat_events_schema,
               events_query>>

flattenVars == <<event, configFile, input_event, fpc, ferr>>

idVars == <<ipc, idFields, event_id>>

nameVars == <<npc, p_field, field_name>>

vars == <<runVars, schemaVars, flattenVars, idVars, nameVars>>

----------------------------------------------------------------------------
(* Bounds *)

NumRuns == 2

\* fields with the _ep suffix in an existing flat_events schema
MaxExistingEp == 2

\* rows returned by the distinct event parameter key query
MaxParamRows == 2

\* characters of user_pseudo_id and event_name
MaxIdLen == 2

\* characters of a raw key handed to _create_valid_bigquery_field_name
MaxKeyLen == 3

RunIds == 1..NumRuns

\* the calls of run_query_job of a behaviour
Runs == DOMAIN pc

\* the rolling tables of a behaviour
TableTypes == DOMAIN rolling

\* date shards (year, month, day) of the source tables events_YYYYMMDD
Shards == {<<2024, 1, 1>>, <<2024, 1, 2>>}

\* row payloads a flattening query can return
Payloads == {"x", "y"}

Results == {{"x"}, {"x", "y"}}

RunTableTypes == {"flat_events", "flat_items"}

----------------------------------------------------------------------------
(* Dates *)

\* self.date = datetime.strptime(self.date_shard, '%Y%m%d')
Strptime(s) == [y |-> s[1], m |-> s[2], d |-> s[3], hh |-> 0, mi |-> 0, ss |-> 0]

\* re.search(r'20\d\d\-\d\d\-\d\d', str(self.date)).group(0)
DateString(dt) == <<dt.y, dt.m, dt.d>>

\* dataframe[column].dt.date, applied to event_date because every built-in
\* schema declares event_date as DATE
DtDate(dt) == <<dt.y, dt.m, dt.d>>

PartitionDates == {DtDate(Strptime(s)) : s \in Shards}

----------------------------------------------------------------------------
(* Engine tables: a table is [exists, rows] with rows a multiset *)

RollingRows == PartitionDates \X Payloads

NoRollingRows == [row \in RollingRows |-> 0]

NoSnapshotRows == [p \in Payloads |-> 0]

AbsentRolling == [exists |-> FALSE, rows |-> NoRollingRows]

AbsentSnapshot == [exists |-> FALSE, rows |-> NoSnapshotRows]

\* rolling table already holding one row per date, written by earlier invocations
SeededRolling == [exists |-> TRUE, rows |-> [row \in RollingRows |-> IF row[2] = "x" THEN 1 ELSE 0]]

\* transform_dataframe: the event_date column is set to self.date and moved first
transform_dataframe(res, dt) == {<<DtDate(dt), p>> : p \in res}

\* DELETE FROM <t> WHERE event_date = "<date_string>"
DeletePartition(tbl, ds) ==
    [tbl EXCEPT !.rows = [row \in RollingRows |-> IF row[1] = ds THEN 0 ELSE tbl.rows[row]]]

\* mutant of LoadAppend: the load replaces the partitions it writes
LoadReplacingPartition(tbl, df) ==
    [exists |-> TRUE,
     rows |-> [row \in RollingRows |->
                 IF \E w \in df : w[1] = row[1]
                 THEN (IF row \in df THEN 1 ELSE 0)
                 ELSE tbl.rows[row]]]

\* load_table_from_dataframe with write_disposition WRITE_APPEND
LoadAppend(tbl, df) ==
    [exists |-> TRUE,
     rows |-> [row \in RollingRows |-> tbl.rows[row] + (IF row \in df THEN 1 ELSE 0)]]

\* query job with a destination and write_disposition WRITE_TRUNCATE
WriteTruncate(tbl, res) ==
    [exists |-> TRUE, rows |-> [p \in Payloads |-> IF p \in res THEN 1 ELSE 0]]

\* ways the DELETE job can end: 404 only when the table is absent
DeleteOutcomes(tbl) ==
    (IF tbl.exists THEN {"ok"} ELSE {"not_found"}) \cup {"api_error", "no_code"}

\* mutant of ExceptHandler: a 404 leaves run_query_job like any other failure
ExceptHandlerNotFoundFails(outcome) ==
    IF outcome \in {"no_code", "not_found"} THEN "failed" ELSE "load"

\* except Exception as e: if e.code == HTTPStatus.NOT_FOUND ... else ...
\* (an exception without a code attribute raises AttributeError in the handler)
ExceptHandler(outcome) ==
    IF outcome = "no_code" THEN "failed" ELSE "load"

----------------------------------------------------------------------------
(* set_dynamic_flat_events_schema *)

\* Text is a sequence of pieces; the pieces of keys and of the suffix are
\* single characters, so that endswith and slicing act on characters.

\* EP_SUFFIX = '_ep'
EP_SUFFIX == <<"_", "e", "p">>

\* schema_field.name.endswith(self.EP_SUFFIX)
EndsWith(name, suf) ==
    /\ Len(name) >= Len(suf)
    /\ SubSeq(name, Len(name) - Len(suf) + 1, Len(name)) = suf

\* schema_field.name[:len(schema_field.name) - len(self.EP_SUFFIX)]
StripSuffix(name, suf) == SubSeq(name, 1, Len(name) - Len(suf))

\* raw keys of the _ep fields of an existing table: the engine only creates
\* fields with valid names
PublishedKeyPool == {<<"c">>, <<"d">>, <<"c", "_", "e", "p">>}

\* event parameter keys of the source shard; the last one starts with a digit
\* and holds an upper-case letter and a space
Keys == {<<"c">>, <<"d">>, <<"1", "U", " ">>}

\* value slots of event_params.value that are non-null in a source row
SlotSets == {{}, {"string"}, {"int"}, {"double"}, {"string", "int"}}

\* CONCAT(IF(string_value IS NULL, '', 'STRING'), IF(int_value ...,'INTEGER'),
\*        IF(double_value ..., 'DOUBLE'), IF(float_value ..., 'FLOAT'))
Fingerprint(slots) ==
    (IF "string" \in slots THEN <<"STRING">> ELSE <<>>) \o
    (IF "int" \in slots THEN <<"INTEGER">> ELSE <<>>) \o
    (IF "double" \in slots THEN <<"DOUBLE">> ELSE <<>>) \o
    (IF "float" \in slots THEN <<"FLOAT">> ELSE <<>>)

Field(name, type) == [name |-> name, type |-> type]

\* self.partitioned_table_schemas['flat_events'] as built by __init__
\* (its first fields; the others are fixed fields of the same kind)
DefaultFlatEventsSchema ==
    << Field(<<"event_date">>, <<"DATE">>),
       Field(<<"event_id">>, <<"STRING">>),
       Field(<<"event_timestamp">>, <<"INTEGER">>),
       Field(<<"device", "_", "category">>, <<"STRING">>) >>

\* types of the _ep fields of a schema read back from the table
PublishedTypes == {<<"STRING">>, <<"INTEGER">>, <<"FLOAT">>}

SeqsUpTo(S, n) == UNION {[1..k -> S] : k \in 0..n}

\* schemas an existing flat_events table can have: field names are unique
ExistingSchemas ==
    {DefaultFlatEventsSchema \o
        [i \in DOMAIN eps |-> Field(eps[i][1] \o EP_SUFFIX, eps[i][2])] :
     eps \in {e \in SeqsUpTo(PublishedKeyPool \X PublishedTypes, MaxExistingEp) :
                 \A i, j \in DOMAIN e : i # j => e[i][1] # e[j][1]}}

\* results of SELECT DISTINCT(event_params_key), event_params_type: distinct
\* (key, type) rows in the order the engine returns them
ParamRowSeqs ==
    {[i \in DOMAIN rs |-> [event_params_key |-> rs[i][1],
                           event_params_type |-> Fingerprint(rs[i][2])]] :
     rs \in {q \in SeqsUpTo(Keys \X SlotSets, MaxParamRows) :
                 \A i, j \in DOMAIN q : i # j => q[i] # q[j]}}

\* an insertion-ordered dict as a sequence of [key, type] entries
DictHas(reg, k) == \E i \in DOMAIN reg : reg[i].key = k

DictGet(reg, k) == reg[CHOOSE i \in DOMAIN reg : reg[i].key = k].type

\* reg[k] = v: a new key goes last, an existing key keeps its position
DictSet(reg, k, v) ==
    IF DictHas(reg, k)
    THEN [i \in DOMAIN reg |-> IF reg[i].key = k THEN [key |-> k, type |-> v] ELSE reg[i]]
    ELSE Append(reg, [key |-> k, type |-> v])

\* try: client.get_table(...).schema except NotFound: the hardcoded schema
OriginalSchema(tbl) ==
    IF tbl.exists THEN tbl.schema ELSE DefaultFlatEventsSchema

\* for schema_field in original_schema: if the name ends with _ep the registry
\* gets the raw key and the field's type
RECURSIVE SeedRegistry(_, _, _)
SeedRegistry(reg, schema, i) ==
    IF i > Len(schema) THEN reg
    ELSE SeedRegistry(
             IF EndsWith(schema[i].name, EP_SUFFIX)
             THEN DictSet(reg, StripSuffix(schema[i].name, EP_SUFFIX), schema[i].type)
             ELSE reg,
             schema, i + 1)

\* mutant of AddObserved: the fresh rows overwrite the registry
RECURSIVE AddObservedOverwriting(_, _, _)
AddObservedOverwriting(reg, rows, i) ==
    IF i > Len(rows) THEN reg
    ELSE AddObservedOverwriting(
             DictSet(reg, rows[i].event_params_key, rows[i].event_params_type),
             rows, i + 1)

\* for row in event_params_rows: a key not in the registry is added with the
\* row's type
RECURSIVE AddObserved(_, _, _)
AddObserved(reg, rows, i) ==
    IF i > Len(rows) THEN reg
    ELSE AddObserved(
             IF ~DictHas(reg, rows[i].event_params_key)
             THEN DictSet(reg, rows[i].event_params_key, rows[i].event_params_type)
             ELSE reg,
             rows, i + 1)

\* mutant of NewSchema: the dynamic fields are put before the original ones
NewSchemaDynamicFirst(original, reg) ==
    [i \in DOMAIN reg |-> Field(reg[i].key \o EP_SUFFIX, reg[i].type)] \o original

\* new_schema = original_schema[:], then one SchemaField appended for every
\* entry of event_params_flat_fields
NewSchema(original, reg) ==
    original \o [i \in DOMAIN reg |-> Field(reg[i].key \o EP_SUFFIX, reg[i].type)]

SchemaIdle ==
    /\ spc = "idle"
    /\ tableSchema = [exists |-> FALSE, schema |-> <<>>]
    /\ paramRows = <<>>
    /\ event_params_flat_fields = <<>>
    /\ flat_events_schema = DefaultFlatEventsSchema
    /\ events_query = <<>>

\* the whole of set_dynamic_flat_events_schema
set_dynamic_flat_events_schema ==
    /\ spc = "start"
    /\ LET original == OriginalSchema(tableSchema)
           seeded == SeedRegistry(event_params_flat_fields, original, 1)
           reg == AddObserved(seeded, paramRows, 1)
       IN /\ event_params_flat_fields' = reg
          /\ flat_events_schema' = NewSchema(original, reg)
    /\ spc' = "done"
    /\ UNCHANGED <<tableSchema, paramRows, events_query>>
    /\ UNCHANGED <<runVars, flattenVars, idVars, nameVars>>

----------------------------------------------------------------------------
(* get_events_query *)

\* self.events_fields (its first fields and the first nested one)
events_fields == << <<"event_date">>, <<"event_timestamp">>, <<"device", ".", "category">> >>

\* f.replace(".", "_")
ReplaceDots(f) == [i \in DOMAIN f |-> IF f[i] = "." THEN "_" ELSE f[i]]

\* str.lower() on the text of a type fingerprint
LowerType(t) ==
    [i \in DOMAIN t |->
        CASE t[i] = "STRING" -> "string"
          [] t[i] = "INTEGER" -> "integer"
          [] t[i] = "DOUBLE" -> "double"
          [] t[i] = "FLOAT" -> "float"
          [] OTHER -> t[i]]

\* if f_type == 'INTEGER': f_type = 'int'; then value.<f_type.lower()>_value
ValueSlot(f_type) ==
    LowerType(IF f_type = <<"INTEGER">> THEN <<"int">> ELSE f_type) \o <<"_value">>

\* the slots event_params.value has in the source tables
SourceValueSlots ==
    {<<"string", "_value">>, <<"int", "_value">>, <<"float", "_value">>,
     <<"double", "_value">>}

\* one column of a select list: what it reads and the name it is given
Column(kind, of, slot, alias) == [kind |-> kind, of |-> of, slot |-> slot, alias |-> alias]

\* the select list of get_events_query: the event id, the fixed fields, one
\* correlated subquery per entry of event_params_flat_fields
get_events_query(fields, reg) ==
    << Column("event_id", <<>>, <<>>, <<"event_id">>) >>
    \o [i \in DOMAIN fields |-> Column("field", fields[i], <<>>, ReplaceDots(fields[i]))]
    \o [i \in DOMAIN reg |->
           Column("event_param", reg[i].key, ValueSlot(reg[i].type), reg[i].key \o EP_SUFFIX)]

\* self.partitioning_column
partitioning_column == <<"event_date">>

\* column names of a sequence without one name
RECURSIVE Drop(_, _)
Drop(cols, name) ==
    IF cols = <<>> THEN <<>>
    ELSE IF Head(cols) = name THEN Drop(Tail(cols), name)
    ELSE <<Head(cols)>> \o Drop(Tail(cols), name)

\* transform_dataframe on the column names: the partitioning column is set,
\* dropped and inserted at position 0
TransformedColumns(cols) == <<partitioning_column>> \o Drop(cols, partitioning_column)

\* the engine names the columns of a query result by their aliases
QueryColumns(q) == [i \in DOMAIN q |-> q[i].alias]

\* get_events_query() called after set_dynamic_flat_events_schema
BuildEventsQuery ==
    /\ spc = "done"
    /\ events_query = <<>>
    /\ events_query' = get_events_query(events_fields, event_params_flat_fields)
    /\ UNCHANGED <<spc, tableSchema, paramRows, event_params_flat_fields, flat_events_schema>>
    /\ UNCHANGED <<runVars, flattenVars, idVars, nameVars>>

----------------------------------------------------------------------------
(* get_unique_event_id *)

\* a column value: NULL or a text (a sequence of characters)
Null == [null |-> TRUE, text |-> <<>>]

Text(t) == [null |-> FALSE, text |-> t]

\* the separator literal of the CONCAT expression
Separator == <<"_">>

IdChars == {"a", "_"}

NonEmptyTexts == {t \in SeqsUpTo(IdChars, MaxIdLen) : Len(t) > 0}

\* values of the four columns named by unique_event_id_fields; user_pseudo_id
\* is NULL for events collected without an identifier, the integer
\* event_timestamp is cast to its digits
IdTuples ==
    [stream_id : {Text(<<"1">>)},
     user_pseudo_id : {Null} \cup {Text(t) : t \in NonEmptyTexts},
     event_name : {Text(t) : t \in NonEmptyTexts},
     event_timestamp : {Text(<<"7">>), Text(<<"8">>)}]

\* BigQuery CONCAT: NULL when an argument is NULL, else the texts joined
RECURSIVE Concat(_)
Concat(args) ==
    IF args = <<>> THEN Text(<<>>)
    ELSE LET rest == Concat(Tail(args)) IN
         IF Head(args).null \/ rest.null THEN Null
         ELSE Text(Head(args).text \o rest.text)

\* self.unique_event_id_fields
unique_event_id_fields == <<"stream_id", "user_pseudo_id", "event_name", "event_timestamp">>

\* CONCAT(f0, "_", f1, "_", f2, "_", f3) as event_id, evaluated on one event
get_unique_event_id(fields, ev) ==
    Concat(<<ev[fields[1]], Text(Separator), ev[fields[2]], Text(Separator),
             ev[fields[3]], Text(Separator), ev[fields[4]]>>)

IdIdle ==
    /\ ipc = "idle"
    /\ idFields = <<>>
    /\ event_id = <<>>

----------------------------------------------------------------------------
(* _create_valid_bigquery_field_name *)

Uppers == <<"A", "B", "C", "D", "E", "F", "G", "H", "I", "J", "K", "L", "M",
            "N", "O", "P", "Q", "R", "S", "T", "U", "V", "W", "X", "Y", "Z">>

Lowers == <<"a", "b", "c", "d", "e", "f", "g", "h", "i", "j", "k", "l", "m",
            "n", "o", "p", "q", "r", "s", "t", "u", "v", "w", "x", "y", "z">>

Digits == {"0", "1", "2", "3", "4", "5", "6", "7", "8", "9"}

LowerLetters == {Lowers[i] : i \in DOMAIN Lowers}

UpperLetters == {Uppers[i] : i \in DOMAIN Uppers}

\* str.lower() on one character
Lower(c) ==
    IF c \in UpperLetters THEN Lowers[CHOOSE i \in DOMAIN Uppers : Uppers[i] = c] ELSE c

\* char.isalnum()
IsAlnum(c) == c \in LowerLetters \cup UpperLetters \cup Digits

\* r[0].isdigit()
IsDigit(c) == c \in Digits

\* r[:300]
MaxFieldNameLen == 300

\* _create_valid_bigquery_field_name: r[0] raises IndexError when r is empty
\* (named without the leading underscore, which TLA+ does not allow)
create_valid_bigquery_field_name(p) ==
    LET low == [i \in DOMAIN p |-> Lower(p[i])]
        r == [i \in DOMAIN low |-> IF IsAlnum(low[i]) THEN low[i] ELSE "_"]
    IN IF r = <<>> THEN [raises |-> "IndexError", name |-> <<>>]
       ELSE LET r2 == IF IsDigit(r[1]) THEN <<"_">> \o r ELSE r IN
            [raises |-> "none",
             name |-> SubSeq(r2, 1, IF Len(r2) < MaxFieldNameLen THEN Len(r2)
                                    ELSE MaxFieldNameLen)]

\* characters of the raw keys tried: a lower-case and an upper-case letter, a
\* digit, a space and a punctuation mark
NameChars == {"a", "U", "1", " ", "!"}

UtmSource == <<"U", "T", "M", " ", "S", "o", "u", "r", "c", "e", "!">>

FirstVisit == <<"1", "s", "t", "V", "i", "s", "i", "t">>

\* a key of 310 characters, and one of 300 characters that starts with a digit
LongKey == [i \in 1..310 |-> "a"]

LongDigitKey == [i \in 1..300 |-> IF i = 1 THEN "1" ELSE "a"]

RawKeys ==
    SeqsUpTo(NameChars, MaxKeyLen) \cup {UtmSource, FirstVisit, LongKey, LongDigitKey}

NameIdle ==
    /\ npc = "idle"
    /\ p_field = <<>>
    /\ field_name = [raises |-> "none", name |-> <<>>]

\* one call of _create_valid_bigquery_field_name
CreateFieldName ==
    /\ npc = "start"
    /\ field_name' = create_valid_bigquery_field_name(p_field)
    /\ npc' = "done"
    /\ UNCHANGED <<p_field, runVars, schemaVars, flattenVars, idVars>>

----------------------------------------------------------------------------
(* InputValidator *)

\* an attribute that was never assigned; reading it raises AttributeError
Unset == [set |-> FALSE, val |-> <<>>]

Set(v) == [set |-> TRUE, val |-> v]

\* a date suffix that matches 20\d\d\d\d\d\d but is no calendar date
BadCalendarShard == <<2024, 13, 1>>

NoSuffix == <<>>

\* tableId of the load job the message reports: a name and a date suffix
TableIds ==
    [name : {"events", "events_intraday", "users"},
     suffix : {<<2024, 1, 1>>, BadCalendarShard, NoSuffix}]

Datasets == {"analytics_1", "analytics_2"}

\* datasets the configuration file has an entry for
ConfiguredDatasets == {"analytics_1"}

\* the trigger messages: "malformed" lacks one of the keys the constructor
\* indexes, which raises KeyError out of the constructor
Events ==
    [payload : {"ok", "malformed"}, projectId : {"p"}, datasetId : Datasets,
     tableId : TableIds]

\* nested tables, in the order flatten_ga_data handles them
Kinds == <<"event_params", "user_properties", "items", "events">>

\* table_type passed to run_query_job for each nested table
KindTableType ==
    [k \in 1..4 |-> <<"flat_event_params", "flat_user_properties", "flat_items", "flat_events">>[k]]

AllTableTypes == {KindTableType[k] : k \in 1..4}

KindSets ==
    {{}, {"events"}, {"event_params", "events"}, {"event_params", "user_properties", "items"},
     {"event_params", "user_properties", "items", "events"}}

\* the entry of a configured dataset: tables_to_flatten and an optional output
ConfigEntries ==
    [tables_to_flatten : KindSets, hasOutput : BOOLEAN,
     out : [sharded : BOOLEAN, partitioned : BOOLEAN]]

\* what loading the configuration blob gives: a failure, or the parsed file
ConfigFiles ==
    {[loaded |-> FALSE, entry |-> <<>>]} \cup
    {[loaded |-> TRUE, entry |-> e] :
        e \in {c \in ConfigEntries :
                  c.hasOutput \/ c.out = [sharded |-> TRUE, partitioned |-> FALSE]}}

\* re.search(r'_(20\d\d\d\d\d\d)$', tableId): None without a date suffix
DateShardSearch(tid) ==
    IF tid.suffix = NoSuffix THEN [found |-> FALSE, group |-> <<>>]
    ELSE [found |-> TRUE, group |-> tid.suffix]

\* re.search(r'(events.*)_20\d\d\d\d\d\d$', tableId)
TableNameSearch(tid) ==
    IF tid.suffix # NoSuffix /\ tid.name \in {"events", "events_intraday"}
    THEN [found |-> TRUE, group |-> tid.name]
    ELSE [found |-> FALSE, group |-> ""]

\* InputValidator.__init__ after the message was decoded: the AttributeError of
\* a failed search is caught and logged, the later attributes stay unset; a
\* failed configuration load is caught and logged, config stays unset
InputValidatorInit(ev, cf) ==
    LET ds == DateShardSearch(ev.tableId)
        tn == TableNameSearch(ev.tableId)
    IN [gcp_project |-> Set(ev.projectId),
        dataset |-> Set(ev.datasetId),
        table_date_shard |-> IF ds.found THEN Set(ds.group) ELSE Unset,
        table_name |-> IF ds.found /\ tn.found THEN Set(tn.group) ELSE Unset,
        config |-> IF cf.loaded THEN Set(cf.entry) ELSE Unset]

NoInputEvent ==
    [gcp_project |-> Unset, dataset |-> Unset, table_date_shard |-> Unset,
     table_name |-> Unset, config |-> Unset]

\* mutant of get_output_configuration: an unknown dataset gets the default output
get_output_configuration_defaulting(inp) ==
    IF ~inp.config.set THEN [raises |-> "AttributeError", out |-> <<>>]
    ELSE IF inp.dataset.val \notin ConfiguredDatasets \/ ~inp.config.val.hasOutput
    THEN [raises |-> "none", out |-> [sharded |-> TRUE, partitioned |-> FALSE]]
    ELSE [raises |-> "none", out |-> inp.config.val.out]

\* get_output_configuration: self.config[self.dataset].get("output", default)
get_output_configuration(inp) ==
    IF ~inp.config.set THEN [raises |-> "AttributeError", out |-> <<>>]
    ELSE IF inp.dataset.val \notin ConfiguredDatasets
    THEN [raises |-> "KeyError", out |-> <<>>]
    ELSE IF ~inp.config.val.hasOutput
    THEN [raises |-> "none", out |-> [sharded |-> TRUE, partitioned |-> FALSE]]
    ELSE [raises |-> "none", out |-> inp.config.val.out]

\* valid_dataset: self.dataset in self.config.keys()
valid_dataset(inp) == inp.dataset.val \in ConfiguredDatasets

\* flatten_nested_table: nested_table in self.config[self.dataset]["tables_to_flatten"]
flatten_nested_table(inp, k) == Kinds[k] \in inp.config.val.tables_to_flatten

\* datetime.strptime(date_shard, '%Y%m%d') raises ValueError for a non-date
IsCalendarDate(s) == s[2] \in 1..12 /\ s[3] \in 1..28

\* evaluating the arguments of GaExportedNestedDataStorage(...) and its
\* __init__: an unset attribute raises AttributeError, a bad date ValueError
ConstructorOutcome(inp) ==
    IF ~inp.gcp_project.set \/ ~inp.dataset.set \/ ~inp.table_name.set
       \/ ~inp.table_date_shard.set
    THEN "AttributeError"
    ELSE IF ~IsCalendarDate(inp.table_date_shard.val) THEN "ValueError"
    ELSE "none"

FlattenIdle ==
    /\ event = [payload |-> "ok", projectId |-> "p", datasetId |-> "analytics_1",
                tableId |-> [name |-> "events", suffix |-> <<2024, 1, 1>>]]
    /\ configFile = [loaded |-> FALSE, entry |-> <<>>]
    /\ input_event = NoInputEvent
    /\ fpc = "idle"
    /\ ferr = "none"

----------------------------------------------------------------------------
(* run_query_job *)

InitRun ==
    /\ output \in [sharded : BOOLEAN, partitioned : BOOLEAN]
    /\ pc = [r \in RunIds |-> "idle"]
    /\ ttype = [r \in RunIds |-> "flat_events"]
    /\ shard = [r \in RunIds |-> <<2024, 1, 1>>]
    /\ result = [r \in RunIds |-> {}]
    /\ job = [r \in RunIds |-> "none"]
    /\ delOutcome = [r \in RunIds |-> "none"]
    /\ loadIssued = [r \in RunIds |-> FALSE]
    /\ err = [r \in RunIds |-> "none"]
    /\ \E tbl \in {AbsentRolling, SeededRolling} : rolling = [t \in RunTableTypes |-> tbl]
    /\ snapshot = [t \in RunTableTypes, s \in Shards |-> AbsentSnapshot]
    /\ loadedSince = [t \in RunTableTypes, d \in PartitionDates |-> {}]
    /\ SchemaIdle
    /\ FlattenIdle
    /\ IdIdle
    /\ NameIdle

\* client.query(query, job_config): the job is submitted, not awaited;
\* without partitioned output the function returns here
SubmitQuery(r, t, s, res) ==
    /\ pc[r] = "idle"
    /\ ttype' = [ttype EXCEPT ![r] = t]
    /\ shard' = [shard EXCEPT ![r] = s]
    /\ result' = [result EXCEPT ![r] = res]
    /\ job' = [job EXCEPT ![r] = "pending"]
    /\ pc' = [pc EXCEPT ![r] = IF output.partitioned THEN "wait" ELSE "done"]
    /\ UNCHANGED <<delOutcome, loadIssued, err, rolling, snapshot, loadedSince>>

\* the engine finishes the flattening query; with a destination the snapshot
\* table <table_type>_<date_shard> is replaced by the result
QueryJobDone(r) ==
    /\ job[r] = "pending"
    /\ job' = [job EXCEPT ![r] = "done"]
    /\ snapshot' = IF output.sharded
                   THEN [snapshot EXCEPT ![ttype[r], shard[r]] = WriteTruncate(@, result[r])]
                   ELSE snapshot
    /\ UNCHANGED <<output, pc, ttype, shard, result, delOutcome, loadIssued, err,
                   rolling, loadedSince>>
    /\ UNCHANGED <<schemaVars, flattenVars, idVars, nameVars>>

\* the engine fails the flattening query; nothing is written
QueryJobFail(r) ==
    /\ job[r] = "pending"
    /\ job' = [job EXCEPT ![r] = "failed"]
    /\ UNCHANGED <<output, pc, ttype, shard, result, delOutcome, loadIssued, err,
                   rolling, snapshot, loadedSince>>
    /\ UNCHANGED <<schemaVars, flattenVars, idVars, nameVars>>

\* query_job_flatten.result() raises when the job failed
ResultRaises(r) ==
    /\ pc[r] = "wait"
    /\ job[r] = "failed"
    /\ pc' = [pc EXCEPT ![r] = "failed"]
    /\ err' = [err EXCEPT ![r] = "query_error"]
    /\ UNCHANGED <<output, ttype, shard, result, job, delOutcome, loadIssued,
                   rolling, snapshot, loadedSince>>
    /\ UNCHANGED <<schemaVars, flattenVars, idVars, nameVars>>

\* result() returned, dataframe transformed; the DELETE job runs and the
\* except clause decides what happens next
DeletePhase(r) ==
    /\ pc[r] = "wait"
    /\ job[r] = "done"
    /\ \E o \in DeleteOutcomes(rolling[ttype[r]]) :
         LET ds == DateString(Strptime(shard[r])) IN
         /\ delOutcome' = [delOutcome EXCEPT ![r] = o]
         /\ rolling' = IF o = "ok"
                       THEN [rolling EXCEPT ![ttype[r]] = DeletePartition(@, ds)]
                       ELSE rolling
         /\ loadedSince' = IF o = "ok"
                           THEN [loadedSince EXCEPT ![ttype[r], ds] = {}]
                           ELSE loadedSince
         /\ pc' = [pc EXCEPT ![r] = ExceptHandler(o)]
         /\ err' = [err EXCEPT ![r] = IF ExceptHandler(o) = "failed"
                                      THEN "AttributeError" ELSE @]
    /\ UNCHANGED <<output, ttype, shard, result, job, loadIssued, snapshot>>
    /\ UNCHANGED <<schemaVars, flattenVars, idVars, nameVars>>

\* client.load_table_from_dataframe(...); load_job_partition.result()
LoadPhase(r) ==
    /\ pc[r] = "load"
    /\ loadIssued' = [loadIssued EXCEPT ![r] = TRUE]
    /\ LET df == transform_dataframe(result[r], Strptime(shard[r])) IN
       \/ /\ rolling' = [rolling EXCEPT ![ttype[r]] = LoadAppend(@, df)]
          /\ loadedSince' = [loadedSince EXCEPT
                               ![ttype[r], DtDate(Strptime(shard[r]))] = @ \cup {r}]
          /\ pc' = [pc EXCEPT ![r] = "done"]
          /\ err' = err
       \/ /\ pc' = [pc EXCEPT ![r] = "failed"]
          /\ err' = [err EXCEPT ![r] = "load_error"]
          /\ UNCHANGED <<rolling, loadedSince>>
    /\ UNCHANGED <<output, ttype, shard, result, job, delOutcome, snapshot>>
    /\ UNCHANGED <<schemaVars, flattenVars, idVars, nameVars>>

Finished(r) == pc[r] \in {"done", "failed"}

\* overlapping invocations: a run may start while earlier ones are in progress
StartRun(r) ==
    /\ \A q \in Runs : q < r => pc[q] # "idle"
    /\ \E t \in RunTableTypes, s \in Shards, res \in Results : SubmitQuery(r, t, s, res)
    /\ UNCHANGED <<output, schemaVars, flattenVars, idVars, nameVars>>

\* sequential invocations: a run starts only after the earlier ones returned
StartRunSeq(r) ==
    /\ \A q \in Runs : q < r => Finished(q)
    /\ StartRun(r)

EngineOrStep(r) ==
    \/ QueryJobDone(r)
    \/ QueryJobFail(r)
    \/ ResultRaises(r)
    \/ DeletePhase(r)
    \/ LoadPhase(r)

Next == \E r \in Runs : StartRun(r) \/ EngineOrStep(r)

Spec == InitRun /\ [][Next]_vars

NextSeq == \E r \in Runs : StartRunSeq(r) \/ EngineOrStep(r)

SpecSeq == InitRun /\ [][NextSeq]_vars

----------------------------------------------------------------------------
(* set_dynamic_flat_events_schema applied to every existing schema and every
   result of the distinct key query *)

RunIdle ==
    /\ output = [sharded |-> TRUE, partitioned |-> FALSE]
    /\ pc = [r \in RunIds |-> "idle"]
    /\ ttype = [r \in RunIds |-> "flat_events"]
    /\ shard = [r \in RunIds |-> <<2024, 1, 1>>]
    /\ result = [r \in RunIds |-> {}]
    /\ job = [r \in RunIds |-> "none"]
    /\ delOutcome = [r \in RunIds |-> "none"]
    /\ loadIssued = [r \in RunIds |-> FALSE]
    /\ err = [r \in RunIds |-> "none"]
    /\ rolling = [t \in RunTableTypes |-> AbsentRolling]
    /\ snapshot = [t \in RunTableTypes, s \in Shards |-> AbsentSnapshot]
    /\ loadedSince = [t \in RunTableTypes, d \in PartitionDates |-> {}]

InitSchema ==
    /\ RunIdle
    /\ spc = "start"
    /\ tableSchema \in {[exists |-> FALSE, schema |-> <<>>]} \cup
                       {[exists |-> TRUE, schema |-> sch] : sch \in ExistingSchemas}
    /\ paramRows \in ParamRowSeqs
    /\ event_params_flat_fields = <<>>
    /\ flat_events_schema = DefaultFlatEventsSchema
    /\ events_query = <<>>
    /\ FlattenIdle
    /\ IdIdle
    /\ NameIdle

NextSchema == set_dynamic_flat_events_schema \/ BuildEventsQuery

SpecSchema == InitSchema /\ [][NextSchema]_vars

----------------------------------------------------------------------------
(* get_unique_event_id applied to every pair of events *)

InitId ==
    /\ RunIdle
    /\ SchemaIdle
    /\ FlattenIdle
    /\ ipc = "start"
    /\ idFields \in IdTuples \X IdTuples
    /\ event_id = <<>>
    /\ NameIdle

\* the engine evaluates the event_id expression on both events
EvaluateEventId ==
    /\ ipc = "start"
    /\ event_id' = <<get_unique_event_id(unique_event_id_fields, idFields[1]),
                     get_unique_event_id(unique_event_id_fields, idFields[2])>>
    /\ ipc' = "done"
    /\ UNCHANGED <<idFields, runVars, schemaVars, flattenVars, nameVars>>

NextId == EvaluateEventId

SpecId == InitId /\ [][NextId]_vars

----------------------------------------------------------------------------
(* _create_valid_bigquery_field_name applied to every raw key *)

InitName ==
    /\ RunIdle
    /\ SchemaIdle
    /\ FlattenIdle
    /\ IdIdle
    /\ npc = "start"
    /\ p_field \in RawKeys
    /\ field_name = [raises |-> "none", name |-> <<>>]

NextName == CreateFieldName

SpecName == InitName /\ [][NextName]_vars

----------------------------------------------------------------------------
(* flatten_ga_data: one invocation; its k-th call of run_query_job is run k *)

\* rows the flattening query of a nested table returns
FlattenResults == {{"x"}}

\* existing flat_events schemas and key query results of an invocation
FlattenSchemas ==
    {[exists |-> FALSE, schema |-> <<>>],
     [exists |-> TRUE,
      schema |-> DefaultFlatEventsSchema \o <<Field(<<"c">> \o EP_SUFFIX, <<"STRING">>)>>]}

FlattenParamRows ==
    {<<>>, <<[event_params_key |-> <<"d">>, event_params_type |-> Fingerprint({"int"})]>>}

InitFlatten ==
    /\ output = [sharded |-> TRUE, partitioned |-> FALSE]
    /\ pc = [r \in 1..4 |-> "idle"]
    /\ ttype = [r \in 1..4 |-> KindTableType[r]]
    /\ shard = [r \in 1..4 |-> <<2024, 1, 1>>]
    /\ result = [r \in 1..4 |-> {}]
    /\ job = [r \in 1..4 |-> "none"]
    /\ delOutcome = [r \in 1..4 |-> "none"]
    /\ loadIssued = [r \in 1..4 |-> FALSE]
    /\ err = [r \in 1..4 |-> "none"]
    /\ \E tbl \in {AbsentRolling, SeededRolling} : rolling = [t \in AllTableTypes |-> tbl]
    /\ snapshot = [t \in AllTableTypes, s \in Shards |-> AbsentSnapshot]
    /\ loadedSince = [t \in AllTableTypes, d \in PartitionDates |-> {}]
    /\ spc = "idle"
    /\ tableSchema \in FlattenSchemas
    /\ paramRows \in FlattenParamRows
    /\ event_params_flat_fields = <<>>
    /\ flat_events_schema = DefaultFlatEventsSchema
    /\ events_query = <<>>
    /\ event \in Events
    /\ configFile \in ConfigFiles
    /\ input_event = NoInputEvent
    /\ fpc = "start"
    /\ ferr = "none"
    /\ IdIdle
    /\ NameIdle

Raise(e) ==
    /\ fpc' = "raised"
    /\ ferr' = e

\* input_event = InputValidator(event)
Validate ==
    /\ fpc = "start"
    /\ IF event.payload = "malformed"
       THEN /\ Raise("KeyError")
            /\ UNCHANGED input_event
       ELSE /\ input_event' = InputValidatorInit(event, configFile)
            /\ fpc' = "validated"
            /\ ferr' = ferr
    /\ UNCHANGED <<event, configFile, runVars, schemaVars, idVars, nameVars>>

\* output_config = input_event.get_output_configuration() and its two reads
ReadOutputConfig ==
    /\ fpc = "validated"
    /\ LET oc == get_output_configuration(input_event) IN
       IF oc.raises # "none"
       THEN /\ Raise(oc.raises)
            /\ UNCHANGED output
       ELSE /\ output' = oc.out
            /\ fpc' = "configured"
            /\ ferr' = ferr
    /\ UNCHANGED <<event, configFile, input_event, schemaVars, idVars, nameVars>>
    /\ UNCHANGED <<pc, ttype, shard, result, job, delOutcome, loadIssued, err,
                   rolling, snapshot, loadedSince>>

\* if input_event.valid_dataset(): ga_source = GaExportedNestedDataStorage(...)
\* else: a warning is logged and the function returns
Construct ==
    /\ fpc = "configured"
    /\ IF valid_dataset(input_event)
       THEN LET co == ConstructorOutcome(input_event) IN
            IF co # "none"
            THEN /\ Raise(co)
                 /\ UNCHANGED <<shard, spc>>
            ELSE /\ shard' = [r \in Runs |-> input_event.table_date_shard.val]
                 /\ spc' = "start"
                 /\ fpc' = "schema"
                 /\ ferr' = ferr
       ELSE /\ fpc' = "returned"
            /\ ferr' = ferr
            /\ UNCHANGED <<shard, spc>>
    /\ UNCHANGED <<event, configFile, input_event, idVars, nameVars>>
    /\ UNCHANGED <<tableSchema, paramRows, event_params_flat_fields, flat_events_schema,
                   events_query>>
    /\ UNCHANGED <<output, pc, ttype, result, job, delOutcome, loadIssued, err,
                   rolling, snapshot, loadedSince>>

\* the distinct key query (or the schema lookup) fails in the engine and the
\* exception leaves flatten_ga_data
SchemaRaises ==
    /\ fpc = "schema"
    /\ spc = "start"
    /\ spc' = "failed"
    /\ Raise("engine_error")
    /\ UNCHANGED <<event, configFile, input_event, runVars, idVars, nameVars>>
    /\ UNCHANGED <<tableSchema, paramRows, event_params_flat_fields, flat_events_schema,
                   events_query>>

\* ga_source.set_dynamic_flat_events_schema() returned
SchemaSet ==
    /\ fpc = "schema"
    /\ spc = "done"
    /\ fpc' = "kind1"
    /\ UNCHANGED <<event, configFile, input_event, ferr, runVars, schemaVars, idVars, nameVars>>

KindPc == [k \in 1..5 |-> <<"kind1", "kind2", "kind3", "kind4", "returned">>[k]]

InRunPc == [k \in 1..4 |-> <<"run1", "run2", "run3", "run4">>[k]]

\* if input_event.flatten_nested_table(...): ga_source.run_query_job(...)
\* else: the nested table is skipped
CallRun(k) ==
    /\ fpc = KindPc[k]
    /\ IF flatten_nested_table(input_event, k)
       THEN /\ \E res \in FlattenResults : SubmitQuery(k, KindTableType[k], shard[k], res)
            /\ events_query' = IF Kinds[k] = "events"
                               THEN get_events_query(events_fields, event_params_flat_fields)
                               ELSE events_query
            /\ fpc' = InRunPc[k]
       ELSE /\ fpc' = KindPc[k + 1]
            /\ UNCHANGED <<pc, ttype, shard, result, job, delOutcome, loadIssued, err,
                           rolling, snapshot, loadedSince, events_query>>
    /\ UNCHANGED <<spc, tableSchema, paramRows, event_params_flat_fields, flat_events_schema>>
    /\ UNCHANGED <<output, event, configFile, input_event, ferr, idVars, nameVars>>

\* run_query_job returned, or its exception leaves flatten_ga_data
ReturnFromRun(k) ==
    /\ fpc = InRunPc[k]
    /\ Finished(k)
    /\ IF pc[k] = "done"
       THEN /\ fpc' = KindPc[k + 1]
            /\ ferr' = ferr
       ELSE Raise(err[k])
    /\ UNCHANGED <<event, configFile, input_event, runVars, schemaVars, idVars, nameVars>>

NextFlatten ==
    \/ Validate
    \/ ReadOutputConfig
    \/ Construct
    \/ set_dynamic_flat_events_schema
    \/ SchemaRaises
    \/ SchemaSet
    \/ \E k \in 1..4 : CallRun(k) \/ ReturnFromRun(k) \/ EngineOrStep(k)

SpecFlatten == InitFlatten /\ [][NextFlatten]_vars

----------------------------------------------------------------------------
(* Properties of run_query_job *)

\* rows of one partition of the rolling table <t>, as a multiset of payloads
PartitionRows(t, d) == [p \in Payloads |-> rolling[t].rows[<<d, p>>]]

\* the multiset holding each row of a query result once
ExactlyOnce(res) == [p \in Payloads |-> IF p \in res THEN 1 ELSE 0]

PartitionOf(r) == DtDate(Strptime(shard[r]))

SameTarget(r1, r2) == ttype[r1] = ttype[r2] /\ shard[r1] = shard[r2]

\* r is the last run that was started
Latest(r) == pc[r] # "idle" /\ \A q \in Runs : q > r => pc[q] = "idle"

\* C1: when the partition DELETE fails with an error other than 404, the load
\* call is not issued for that run and the error leaves run_query_job.
C1_DeleteFailureStopsLoad ==
    \A r \in Runs :
        delOutcome[r] \in {"api_error", "no_code"} =>
            /\ ~loadIssued[r]
            /\ pc[r] = "failed"
            /\ err[r] # "none"

\* C2: after two sequential completed partitioned runs for the same table_type
\* and date_shard, the partition holds exactly the rows of the most recent run,
\* each once.
C2_RollingIdempotence ==
    \A r1, r2 \in Runs :
        ( /\ output.partitioned
          /\ r1 < r2
          /\ SameTarget(r1, r2)
          /\ pc[r1] = "done"
          /\ pc[r2] = "done"
          /\ Latest(r2) )
        => PartitionRows(ttype[r2], PartitionOf(r2)) = ExactlyOnce(result[r2])

\* a step of run r leaves the rows of every date other than its own unchanged
OtherDatesUntouched ==
    \A r \in Runs :
        pc'[r] # pc[r] =>
            \A t \in TableTypes, d \in PartitionDates :
                (pc[r] = "idle" \/ d # PartitionOf(r)) =>
                    PartitionRows(t, d)' = PartitionRows(t, d)

\* after a completed partitioned run, its partition holds exactly its rows
PartitionIsResult ==
    \A r \in Runs :
        (output.partitioned /\ pc[r] = "done" /\ Latest(r))
        => PartitionRows(ttype[r], PartitionOf(r)) = ExactlyOnce(result[r])

\* C3: a partitioned run for date_shard D changes only the rows whose event_date
\* is D, and after the run the rows for D are exactly the newly loaded rows.
C3_OnlyOwnPartitionReplaced ==
    [][OtherDatesUntouched]_vars /\ []PartitionIsResult

\* C4: after two sequential completed runs with sharded output for the same
\* table_type and date_shard, the snapshot table <table_type>_<date_shard> exists
\* and holds exactly one copy of the latest query result.
C4_SnapshotIdempotence ==
    \A r1, r2 \in Runs :
        ( /\ output.sharded
          /\ r1 < r2
          /\ SameTarget(r1, r2)
          /\ pc[r1] = "done"
          /\ pc[r2] = "done"
          /\ Latest(r2) )
        => snapshot[ttype[r2], shard[r2]] =
               [exists |-> TRUE, rows |-> ExactlyOnce(result[r2])]

\* both runs went through a DELETE that cleared (or found no) partition, and
\* both loaded after the last DELETE of that partition: both deletes ran before
\* either load
BothDeletedBeforeEitherLoad(r1, r2) ==
    /\ r1 # r2
    /\ output.partitioned
    /\ SameTarget(r1, r2)
    /\ pc[r1] = "done"
    /\ pc[r2] = "done"
    /\ delOutcome[r1] \in {"ok", "not_found"}
    /\ delOutcome[r2] \in {"ok", "not_found"}
    /\ {r1, r2} \subseteq loadedSince[ttype[r1], PartitionOf(r1)]

\* C10: overlapping partitioned runs for the same table_type and date_shard are
\* not safe: when both deletes run before either load, the partition holds the
\* rows of both runs, a row that both produce at least twice.
C10_OverlapDuplicates ==
    \A r1, r2 \in Runs :
        BothDeletedBeforeEitherLoad(r1, r2) =>
            \A p \in Payloads :
                rolling[ttype[r1]].rows[<<PartitionOf(r1), p>>]
                    >= ExactlyOnce(result[r1])[p] + ExactlyOnce(result[r2])[p]

C10_Witness ==
    \E r1, r2 \in Runs :
        /\ BothDeletedBeforeEitherLoad(r1, r2)
        /\ delOutcome[r1] = "ok"
        /\ delOutcome[r2] = "ok"
        /\ rolling[ttype[r1]].rows[<<PartitionOf(r1), "x">>] = 2

\* the rolling table holding exactly the transformed rows of run r
TableOfRun(r) ==
    [exists |-> TRUE,
     rows |-> [row \in RollingRows |->
                 IF row \in transform_dataframe(result[r], Strptime(shard[r]))
                 THEN 1 ELSE 0]]

\* C11: a partition DELETE that fails with 404 because the rolling table is
\* absent is a no-op: the run is not failed by it and goes on to the load, and
\* once the run has completed the rolling table exists and holds exactly the
\* rows of that run.
C11_NotFoundIsNoOp ==
    \A r \in Runs :
        delOutcome[r] = "not_found" =>
            /\ \/ pc[r] \in {"load", "done"}
               \/ pc[r] = "failed" /\ err[r] = "load_error"
            /\ (pc[r] = "done" /\ Latest(r)) =>
                   /\ loadIssued[r]
                   /\ rolling[ttype[r]] = TableOfRun(r)

C11_Witness ==
    \E r \in Runs :
        /\ delOutcome[r] = "not_found"
        /\ pc[r] = "done"
        /\ err[r] = "none"
        /\ result[r] = {"x", "y"}
        /\ rolling[ttype[r]] = TableOfRun(r)

\* without partitioned output no step changes the rolling tables
RollingUnchanged == ~output.partitioned => rolling' = rolling

\* no delete and no load without partitioned output, no snapshot table without
\* sharded output, and with both the snapshot and the partition of a completed
\* run hold its query result
OnlyConfiguredModes ==
    /\ ~output.partitioned =>
           \A r \in Runs : delOutcome[r] = "none" /\ ~loadIssued[r]
    /\ ~output.sharded =>
           \A t \in TableTypes, s \in Shards : snapshot[t, s] = AbsentSnapshot
    /\ \A r \in Runs :
           (output.sharded /\ output.partitioned /\ pc[r] = "done" /\ Latest(r)) =>
               /\ snapshot[ttype[r], shard[r]]
                      = [exists |-> TRUE, rows |-> ExactlyOnce(result[r])]
               /\ PartitionRows(ttype[r], PartitionOf(r)) = ExactlyOnce(result[r])

\* C19: run_query_job writes only the configured output modes: no delete, no
\* load and no change of the rolling table without partitioned output, no
\* snapshot table without sharded output, and with both the snapshot is written
\* and the rolling partition replaced from the same query result.
C19_OnlyConfiguredModes ==
    [][RollingUnchanged]_vars /\ []OnlyConfiguredModes

----------------------------------------------------------------------------
(* Properties of set_dynamic_flat_events_schema *)

\* raw keys of the _ep fields of a schema
PublishedKeys(schema) ==
    {StripSuffix(schema[i].name, EP_SUFFIX) :
        i \in {j \in DOMAIN schema : EndsWith(schema[j].name, EP_SUFFIX)}}

ObservedKeys == {paramRows[i].event_params_key : i \in DOMAIN paramRows}

\* C5: the stored schema has the existing schema (or the built-in default when
\* the table is absent) as a prefix: same fields, same types, same positions.
C5_AdditiveOnly ==
    spc = "done" =>
        LET original == OriginalSchema(tableSchema) IN
        /\ Len(flat_events_schema) >= Len(original)
        /\ \A i \in DOMAIN original : flat_events_schema[i] = original[i]

C5_Witness ==
    /\ spc = "done"
    /\ tableSchema.exists
    /\ PublishedKeys(tableSchema.schema) # {}
    /\ ObservedKeys \ PublishedKeys(tableSchema.schema) # {}
    /\ Len(flat_events_schema) > Len(tableSchema.schema)

\* C6: the stored schema is the existing schema followed by exactly one field
\* per newly observed key, typed by a fingerprint observed for that key, and by
\* no field for a key already published.
C6_OnlyNewKeysAppended ==
    spc = "done" =>
        LET original == OriginalSchema(tableSchema)
            new == flat_events_schema
            tail == SubSeq(new, Len(original) + 1, Len(new))
            newKeys == ObservedKeys \ PublishedKeys(original)
        IN /\ SubSeq(new, 1, Len(original)) = original
           /\ Len(tail) = Cardinality(newKeys)
           /\ {tail[i].name : i \in DOMAIN tail} = {k \o EP_SUFFIX : k \in newKeys}
           /\ \A i \in DOMAIN tail :
                  \E j \in DOMAIN paramRows :
                      /\ paramRows[j].event_params_key \o EP_SUFFIX = tail[i].name
                      /\ paramRows[j].event_params_type = tail[i].type

\* C7: a key whose field <key>_ep is in the existing schema with type T is
\* mapped to T by the registry, whatever the fresh rows report for it.
C7_ExistingSchemaWins ==
    spc = "done" =>
        LET original == OriginalSchema(tableSchema) IN
        \A i \in DOMAIN original :
            EndsWith(original[i].name, EP_SUFFIX) =>
                LET k == StripSuffix(original[i].name, EP_SUFFIX) IN
                /\ DictHas(event_params_flat_fields, k)
                /\ DictGet(event_params_flat_fields, k) = original[i].type

C7_Witness ==
    /\ spc = "done"
    /\ tableSchema.exists
    /\ \E i \in DOMAIN tableSchema.schema, j \in DOMAIN paramRows :
          /\ tableSchema.schema[i].name = paramRows[j].event_params_key \o EP_SUFFIX
          /\ tableSchema.schema[i].type # paramRows[j].event_params_type
          /\ DictGet(event_params_flat_fields, paramRows[j].event_params_key)
                 = tableSchema.schema[i].type

\* the orders in which the engine can return the rows of paramRows
RowOrders ==
    {[i \in DOMAIN paramRows |-> paramRows[f[i]]] :
        f \in {g \in [DOMAIN paramRows -> DOMAIN paramRows] :
                  \A i, j \in DOMAIN paramRows : i # j => g[i] # g[j]}}

\* C13: for the same set of distinct key rows and the same existing schema the
\* registry and the schema are the same in whatever order the engine returns
\* the rows, also when a key occurs with more than one type fingerprint.
C13_RegistryDeterministic ==
    spc = "done" =>
        \A rows \in RowOrders :
            LET original == OriginalSchema(tableSchema)
                reg == AddObserved(SeedRegistry(<<>>, original, 1), rows, 1)
            IN /\ reg = event_params_flat_fields
               /\ NewSchema(original, reg) = flat_events_schema

\* types of the SchemaField records of a published schema
SchemaFieldTypes == {<<"STRING">>, <<"INTEGER">>, <<"FLOAT">>, <<"DATE">>}

\* C14: every field of the stored schema has one of the types STRING, INTEGER,
\* FLOAT, DATE, whatever fingerprints the distinct key query returned.
C14_FieldTypesValid ==
    spc = "done" =>
        \A i \in DOMAIN flat_events_schema :
            flat_events_schema[i].type \in SchemaFieldTypes

\* a valid field name: lower-case letters, digits and underscores, no digit
\* first, at most 300 characters
ValidFieldName(name) ==
    /\ \A i \in DOMAIN name : name[i] \in LowerLetters \cup Digits \cup {"_"}
    /\ name # <<>> => name[1] \notin Digits
    /\ Len(name) <= MaxFieldNameLen

\* C15: every field name appended to the schema for a registry entry, and
\* every alias get_events_query gives a dynamic column, is a valid field name,
\* whatever characters the raw key holds.
C15_DynamicNamesValid ==
    spc = "done" =>
        /\ \A i \in (Len(OriginalSchema(tableSchema)) + 1)..Len(flat_events_schema) :
               ValidFieldName(flat_events_schema[i].name)
        /\ \A i \in DOMAIN events_query :
               events_query[i].kind = "event_param" => ValidFieldName(events_query[i].alias)

----------------------------------------------------------------------------
(* Properties of get_events_query *)

\* C18: the select list is the event id, the fixed fields, then one column per
\* registry entry in registry order, aliased <key>_ep, reading the value slot
\* of the entry's type (STRING string_value, INTEGER int_value, FLOAT
\* float_value), which is a slot the source has.
C18_DynamicColumns ==
    events_query # <<>> =>
        LET reg == event_params_flat_fields
            n == Len(events_fields) + 1
        IN /\ Len(events_query) = n + Len(reg)
           /\ events_query[1].alias = <<"event_id">>
           /\ \A i \in DOMAIN events_fields : events_query[i + 1].of = events_fields[i]
           /\ \A i \in DOMAIN reg :
                  LET col == events_query[n + i] IN
                  /\ col.of = reg[i].key
                  /\ col.alias = reg[i].key \o EP_SUFFIX
                  /\ reg[i].type = <<"STRING">> => col.slot = <<"string", "_value">>
                  /\ reg[i].type = <<"INTEGER">> => col.slot = <<"int", "_value">>
                  /\ reg[i].type = <<"FLOAT">> => col.slot = <<"float", "_value">>
                  /\ col.slot \in SourceValueSlots

\* C20: the column names of the frame handed to the rolling load of
\* flat_events (the query's columns with event_date moved first) are the field
\* names of the schema handed to that load, in the same order.
C20_ColumnsMatchSchema ==
    events_query # <<>> =>
        TransformedColumns(QueryColumns(events_query))
            = [i \in DOMAIN flat_events_schema |-> flat_events_schema[i].name]

----------------------------------------------------------------------------
(* Properties of _create_valid_bigquery_field_name *)

\* C16: for every raw key the function returns a name: at most 300 characters,
\* no digit first, every letter or digit of the key kept in lower case and
\* every other character replaced by an underscore.
C16_FieldNameSanitized ==
    npc = "done" =>
        LET name == field_name.name
            off == IF IsDigit(p_field[1]) THEN 1 ELSE 0
        IN /\ field_name.raises = "none"
           /\ Len(name) <= MaxFieldNameLen
           /\ ~IsDigit(name[1])
           /\ Len(name) = (IF Len(p_field) + off < MaxFieldNameLen
                           THEN Len(p_field) + off ELSE MaxFieldNameLen)
           /\ \A i \in DOMAIN p_field :
                  i + off <= MaxFieldNameLen =>
                      name[i + off] = (IF IsAlnum(p_field[i]) THEN Lower(p_field[i]) ELSE "_")
           /\ p_field = UtmSource =>
                  name = <<"u", "t", "m", "_", "s", "o", "u", "r", "c", "e", "_">>
           /\ p_field = FirstVisit =>
                  name = <<"_", "1", "s", "t", "v", "i", "s", "i", "t">>
           /\ p_field = LongKey => Len(name) = 300

----------------------------------------------------------------------------
(* Properties of get_unique_event_id *)

\* C8: two events whose identity tuples differ in at least one field get
\* different event_id values, also when a field contains the separator.
C8_EventIdInjective ==
    (ipc = "done" /\ idFields[1] # idFields[2]) => event_id[1] # event_id[2]

----------------------------------------------------------------------------
(* Properties of flatten_ga_data *)

\* the three validation failures: the table id lacks a parseable date shard or
\* table name, the configuration cannot be loaded, the dataset is not configured
ValidationFailure ==
    \/ ~DateShardSearch(event.tableId).found
    \/ ~TableNameSearch(event.tableId).found
    \/ ~configFile.loaded
    \/ event.datasetId \notin ConfiguredDatasets

\* no distinct key query, schema lookup, flattening query, delete or load
NoEngineCall ==
    /\ spc = "idle"
    /\ \A r \in Runs : job[r] = "none" /\ delOutcome[r] = "none" /\ ~loadIssued[r]

\* C9: on a validation failure flatten_ga_data issues no engine call, never
\* returns normally, and when it has stopped an exception has left it.
C9_ValidationAborts ==
    (fpc # "idle" /\ ValidationFailure) =>
        /\ NoEngineCall
        /\ fpc \in {"start", "validated", "configured", "raised"}
        /\ (~ENABLED NextFlatten) => (fpc = "raised" /\ ferr # "none")

C9_Witness ==
    /\ event.payload = "ok"
    /\ configFile.loaded
    /\ event.datasetId \in ConfiguredDatasets
    /\ DateShardSearch(event.tableId).found
    /\ ~TableNameSearch(event.tableId).found
    /\ fpc = "raised"
    /\ ferr = "AttributeError"
    /\ NoEngineCall

\* flatten_ga_data is past its call of run_query_job for nested table k
PastKind(k) ==
    fpc \in {KindPc[j] : j \in (k + 1)..5} \cup {InRunPc[j] : j \in (k + 1)..4}
            \cup {"raised"}

\* every engine job of run k has ended
JobsComplete(k) == job[k] \in {"done", "failed"} /\ pc[k] \in {"done", "failed"}

\* C12: the enabled nested tables are handled in the order event_params,
\* user_properties, items, events, and when flatten_ga_data is past a nested
\* table (at a later one, returned or raised) every engine job submitted for
\* that table has ended, in every output configuration.
C12_KindsSequential ==
    \A k \in Runs :
        pc[k] # "idle" =>
            /\ \A j \in Runs :
                   (j < k /\ flatten_nested_table(input_event, j)) => JobsComplete(j)
            /\ PastKind(k) => JobsComplete(k)

\* C17: when the events nested table is not in tables_to_flatten, an invocation
\* issues no distinct key query and no schema lookup and leaves the flat_events
\* schema as built by the constructor.
C17_SchemaOnlyForEvents ==
    (configFile.loaded /\ "events" \notin configFile.entry.tables_to_flatten) =>
        /\ spc \in {"idle", "start"}
        /\ flat_events_schema = DefaultFlatEventsSchema

====
